---- MODULE Spec2Model ----
(***************************************************************************)
(* Model of target_sherpaan/client.py: SherpaClient.call_soap_service      *)
(* (request dispatcher, retried by tenacity) and                           *)
(* SherpaClient._parse_soap_response (response unwrapper).                 *)
(*                                                                         *)
(* A Python string is a sequence of tokens; every string constant of the   *)
(* program is a sequence of one or more tokens, chosen so that substring,  *)
(* suffix and equality tests on token sequences agree with the tests on    *)
(* characters.  An XML text is a sequence of tag and character-data        *)
(* tokens.                                                                 *)
(***************************************************************************)
EXTENDS Integers, Sequences, FiniteSets, TLC

VARIABLES
    xml_response,   \* unwrapper: the text handed to _parse_soap_response
    parsed,         \* unwrapper: [done, raised, value, stop] of the call
    base_url,       \* auth.base_url
    url,            \* URL builder: [done, value], the URL of lines 68-70
    headers,        \* session.headers["SOAPAction"] (<<>> while unset)
    pc,             \* per caller: "idle", "header", "post", "done"
    service,        \* per caller: service_name
    attempt,        \* per caller: tenacity's attempt number
    lastExc,        \* per caller: exception raised by the latest failed attempt
    response,       \* per caller: latest transport outcome
    outcome,        \* per caller: what the caller of call_soap_service gets
    sent            \* requests on the wire: [by, action, url, attempt]

vars == <<xml_response, parsed, base_url, url, headers, pc, service, attempt,
          lastExc, response, outcome, sent>>

parseVars == <<xml_response, parsed>>
urlVars == <<url>>
callVars == <<headers, pc, service, attempt, lastExc, response, outcome, sent>>

-----------------------------------------------------------------------------
(* Bounds *)

MaxPayloads == 3    \* children of one response element
MaxEntries == 3     \* top-level entries of one soap body
MaxUrlLen == 4      \* tokens of a base URL

-----------------------------------------------------------------------------
(* Python strings *)

Contains(s, sub) ==
    \E i \in 1..(Len(s) - Len(sub) + 1) : SubSeq(s, i, i + Len(sub) - 1) = sub

EndsWith(s, suf) ==
    /\ Len(s) >= Len(suf)
    /\ SubSeq(s, Len(s) - Len(suf) + 1, Len(s)) = suf

SeqsUpTo(S, n) == UNION {[1..k -> S] : k \in 1..n}

-----------------------------------------------------------------------------
(* Python values as produced by xmltodict *)

NoneV == [type |-> "none", s |-> <<>>, items |-> <<>>]
StrV(s) == [type |-> "str", s |-> s, items |-> <<>>]
ListV(xs) == [type |-> "list", s |-> <<>>, items |-> xs]
DictV(kvs) == [type |-> "dict", s |-> <<>>, items |-> kvs]

Truthy(v) ==
    CASE v.type = "none" -> FALSE
      [] v.type = "str" -> v.s # <<>>
      [] OTHER -> v.items # <<>>

HasKey(d, key) == \E i \in 1..Len(d.items) : d.items[i].k = key

Get(d, key) == d.items[CHOOSE i \in 1..Len(d.items) : d.items[i].k = key].v

RawResponse(text) == DictV(<<[k |-> <<"raw_response">>, v |-> StrV(text)]>>)

-----------------------------------------------------------------------------
(* XML texts and xmltodict.parse *)

Open(n) == [t |-> "open", n |-> n]
Close(n) == [t |-> "close", n |-> n]
Text(d) == [t |-> "text", n |-> d]

Frame(tag) == [tag |-> tag, kids |-> <<>>, data |-> <<>>]

\* xmltodict's push_data: a repeated key turns its value into a list
PushData(kids, key, v) ==
    IF \E i \in 1..Len(kids) : kids[i].k = key
    THEN LET i == CHOOSE j \in 1..Len(kids) : kids[j].k = key
             old == kids[i].v
         IN  [kids EXCEPT ![i].v =
                 IF old.type = "list" THEN ListV(Append(old.items, v))
                 ELSE ListV(<<old, v>>)]
    ELSE Append(kids, [k |-> key, v |-> v])

\* xmltodict's endElement: the value of a finished element
ElementValue(f) ==
    IF f.kids # <<>>
    THEN DictV(IF f.data # <<>> THEN PushData(f.kids, <<"#text">>, StrV(f.data))
               ELSE f.kids)
    ELSE IF f.data # <<>> THEN StrV(f.data) ELSE NoneV

ParseError(st) == [st EXCEPT !.err = TRUE]

ParseStep(st, tok) ==
    IF st.err THEN st
    ELSE IF tok.t = "open"
    THEN IF st.hasRoot THEN ParseError(st)
         ELSE [st EXCEPT !.stack = Append(st.stack, Frame(tok.n))]
    ELSE IF st.stack = <<>> THEN ParseError(st)
    ELSE LET top == st.stack[Len(st.stack)]
             rest == SubSeq(st.stack, 1, Len(st.stack) - 1)
         IN  IF tok.t = "text"
             THEN [st EXCEPT !.stack[Len(st.stack)].data = top.data \o tok.n]
             ELSE IF top.tag # tok.n THEN ParseError(st)
             ELSE IF rest = <<>>
             THEN [st EXCEPT !.stack = <<>>, !.hasRoot = TRUE,
                             !.root = DictV(<<[k |-> top.tag, v |-> ElementValue(top)]>>)]
             ELSE [st EXCEPT !.stack = [rest EXCEPT ![Len(rest)].kids =
                                 PushData(rest[Len(rest)].kids, top.tag, ElementValue(top))]]

RECURSIVE ParseFold(_, _, _)
ParseFold(toks, i, st) ==
    IF i > Len(toks) THEN st ELSE ParseFold(toks, i + 1, ParseStep(st, toks[i]))

\* xmltodict.parse: [raised, value]; raises on a text that is not one
\* well-formed element
xmltodict_parse(text) ==
    LET st == ParseFold(text, 1, [err |-> FALSE, stack |-> <<>>,
                                  hasRoot |-> FALSE, root |-> NoneV])
    IN  IF st.err \/ ~st.hasRoot \/ st.stack # <<>>
        THEN [raised |-> TRUE, value |-> NoneV]
        ELSE [raised |-> FALSE, value |-> st.root]

-----------------------------------------------------------------------------
(* _parse_soap_response *)

S_Result == <<"Result">>
S_ResponseValue == <<"Response", "Value">>
S_Response == <<"Response">>

EnvelopeKeys == << <<"soap:", "Envelope">>, <<"soap12:", "Envelope">>, <<"Envelope">> >>
BodyKeys == << <<"soap:", "Body">>, <<"soap12:", "Body">>, <<"Body">> >>

Raise == [raised |-> TRUE, value |-> NoneV, stop |-> 0]
Return(v, stop) == [raised |-> FALSE, value |-> v, stop |-> stop]

\* lines 130-133: the inner loop over the body keys; `in` and the subscript
\* raise TypeError on None, and the subscript on a string
RECURSIVE FindBodyIn(_, _)
FindBodyIn(envelope, j) ==
    IF j > Len(BodyKeys) THEN Return(NoneV, 0)
    ELSE CASE envelope.type = "none" -> Raise
           [] envelope.type = "str" ->
                IF Contains(envelope.s, BodyKeys[j]) THEN Raise
                ELSE FindBodyIn(envelope, j + 1)
           [] envelope.type = "list" ->
                IF \E i \in 1..Len(envelope.items) : envelope.items[i] = StrV(BodyKeys[j])
                THEN Raise
                ELSE FindBodyIn(envelope, j + 1)
           [] OTHER ->
                IF HasKey(envelope, BodyKeys[j])
                THEN Return(Get(envelope, BodyKeys[j]), 0)
                ELSE FindBodyIn(envelope, j + 1)

\* lines 126-135: the outer loop over the envelope keys
RECURSIVE FindBody(_, _)
FindBody(xml_dict, i) ==
    IF i > Len(EnvelopeKeys) THEN Return(NoneV, 0)
    ELSE IF HasKey(xml_dict, EnvelopeKeys[i])
    THEN LET b == FindBodyIn(Get(xml_dict, EnvelopeKeys[i]), 1)
         IN  IF b.raised \/ Truthy(b.value) THEN b ELSE FindBody(xml_dict, i + 1)
    ELSE FindBody(xml_dict, i + 1)

\* variant: only the first mapping-valued entry is examined
RECURSIVE FindResponseData_first(_, _)
FindResponseData_first(items, i) ==
    IF i > Len(items) THEN Return(NoneV, 0)
    ELSE LET key == items[i].k
             value == items[i].v
         IN  IF value.type = "dict"
             THEN IF HasKey(value, S_Result) THEN Return(Get(value, S_Result), i)
                  ELSE IF HasKey(value, S_ResponseValue)
                  THEN Return(Get(value, S_ResponseValue), i)
                  ELSE IF EndsWith(key, S_Response) \/ Contains(key, S_Response)
                  THEN Return(value, i)
                  ELSE Return(NoneV, 0)
             ELSE FindResponseData_first(items, i + 1)

\* lines 145-158: the payload search; stop is the index of the entry at
\* which the loop broke, 0 when it ran to the end
RECURSIVE FindResponseData(_, _)
FindResponseData(items, i) ==
    IF i > Len(items) THEN Return(NoneV, 0)
    ELSE LET key == items[i].k
             value == items[i].v
         IN  IF value.type = "dict"
             THEN IF HasKey(value, S_Result) THEN Return(Get(value, S_Result), i)
                  ELSE IF HasKey(value, S_ResponseValue)
                  THEN Return(Get(value, S_ResponseValue), i)
                  ELSE IF EndsWith(key, S_Response) \/ Contains(key, S_Response)
                  THEN Return(value, i)
                  ELSE FindResponseData(items, i + 1)
             ELSE FindResponseData(items, i + 1)

\* lines 122-166: the body of the try block
ParseTry(xml_response_) ==
    LET x == xmltodict_parse(xml_response_)
    IN  IF x.raised THEN Raise
        ELSE LET b == FindBody(x.value, 1)
                 soap_body == b.value
             IN  IF b.raised THEN Raise
                 ELSE IF ~Truthy(soap_body) THEN Return(RawResponse(xml_response_), 0)
                 ELSE IF soap_body.type # "dict" THEN Raise
                 ELSE LET r == FindResponseData(soap_body.items, 1)
                      IN  IF Truthy(r.value) THEN r
                          ELSE Return(soap_body, r.stop)

\* variant: the except clause lets the exception go
ParseExcept_reraise(xml_response_) == Raise

\* lines 167-172: the except clause
ParseExcept(xml_response_) == Return(RawResponse(xml_response_), 0)

\* lines 107-172
_parse_soap_response(xml_response_) ==
    LET t == ParseTry(xml_response_)
    IN  IF t.raised THEN ParseExcept(xml_response_) ELSE t

-----------------------------------------------------------------------------
(* The response texts the unwrapper is run on *)

Elem(tag, data, kids) == [tag |-> tag, data |-> data, kids |-> kids]

RECURSIVE Serialize(_)
RECURSIVE SerializeAll(_, _)
Serialize(e) ==
    <<Open(e.tag)>> \o (IF e.data # <<>> THEN <<Text(e.data)>> ELSE <<>>)
        \o SerializeAll(e.kids, 1) \o <<Close(e.tag)>>
SerializeAll(es, i) ==
    IF i > Len(es) THEN <<>> ELSE Serialize(es[i]) \o SerializeAll(es, i + 1)

OK == <<"OK">>

PayloadElems ==
    {Elem(S_Result, d, <<>>) : d \in {<<>>, OK}}
        \cup {Elem(S_Result, <<>>, <<Elem(<<"Item">>, OK, <<>>)>>),
              Elem(S_ResponseValue, OK, <<>>),
              Elem(<<"Data">>, OK, <<>>)}

EntryTags == {<<"GetStatus", "Response">>, <<"Info">>}

\* entries with up to MaxPayloads children
EntryElems ==
    {Elem(t, <<>>, ks) : t \in EntryTags, ks \in SeqsUpTo(PayloadElems, MaxPayloads)}

\* entries that are empty, text, or have one child
PlainEntryElems ==
    {Elem(t, <<>>, ks) : t \in EntryTags,
                         ks \in SeqsUpTo(PayloadElems, 1) \cup {<<>>}}
        \cup {Elem(t, OK, <<>>) : t \in EntryTags}

Envelope(bodies) == Elem(EnvelopeKeys[1], <<>>, bodies)

\* well-formed envelopes: a body of one entry with up to MaxPayloads
\* children, or a body of up to MaxEntries plain entries
RichEnvelopes ==
    {Envelope(<<Elem(BodyKeys[1], <<>>, <<e>>)>>) : e \in EntryElems}
        \cup {Envelope(<<Elem(BodyKeys[1], <<>>, es)>>) :
                    es \in SeqsUpTo(PlainEntryElems, MaxEntries)}

SimpleEntry == Elem(<<"GetStatus", "Response">>, <<>>, <<Elem(S_Result, OK, <<>>)>>)

\* the spellings of the envelope and body keys, and envelopes and bodies
\* that are empty, text or repeated
BodyVariants ==
    {Elem(t, d, ks) : t \in {BodyKeys[1], BodyKeys[2], BodyKeys[3], <<"soap:", "Header">>},
                      d \in {<<>>},
                      ks \in {<<>>, <<SimpleEntry>>}}
        \cup {Elem(BodyKeys[1], OK, <<>>)}

EnvelopeVariants ==
    {Elem(t, <<>>, bs) : t \in {EnvelopeKeys[1], EnvelopeKeys[2], EnvelopeKeys[3], <<"html">>},
                         bs \in SeqsUpTo(BodyVariants, 2)}
        \cup {Elem(t, d, <<>>) : t \in {EnvelopeKeys[1], <<"html">>},
                                 d \in {<<>>, OK, BodyKeys[1], BodyKeys[3]}}

WellFormedTexts == {Serialize(e) : e \in RichEnvelopes \cup EnvelopeVariants}

\* texts expat rejects: nothing, an unclosed element, a wrong closing tag,
\* text or a second element after the root
MalformedTexts ==
    {<<>>, <<Text(OK)>>}
        \cup {SubSeq(Serialize(e), 1, Len(Serialize(e)) - 1) : e \in EnvelopeVariants}
        \cup {Serialize(e) \o <<Close(e.tag)>> : e \in EnvelopeVariants}
        \cup {Serialize(e) \o Serialize(e) : e \in EnvelopeVariants}
        \cup {<<Open(e.tag), Close(<<"x">>)>> : e \in EnvelopeVariants}

XmlTexts == WellFormedTexts \cup MalformedTexts

NotParsed == [done |-> FALSE, raised |-> FALSE, value |-> NoneV, stop |-> 0]

-----------------------------------------------------------------------------
(* Specification of the unwrapper: one call of _parse_soap_response *)

ParseResponse ==
    /\ ~parsed.done
    /\ parsed' = [done |-> TRUE] @@ _parse_soap_response(xml_response)
    /\ UNCHANGED <<xml_response, base_url, urlVars, callVars>>

-----------------------------------------------------------------------------
(* The target URL, lines 67-70 *)

\* str.replace(old, ""): one pass from the left over non-overlapping matches
RECURSIVE Replace(_, _, _)
Replace(s, old, i) ==
    IF i > Len(s) THEN <<>>
    ELSE IF i + Len(old) - 1 <= Len(s) /\ SubSeq(s, i, i + Len(old) - 1) = old
    THEN Replace(s, old, i + Len(old))
    ELSE <<s[i]>> \o Replace(s, old, i + 1)

\* str.split(sep)[0]: the part before the first separator
SplitFirst(s, sep) ==
    IF \E i \in 1..Len(s) : s[i] = sep
    THEN SubSeq(s, 1, (CHOOSE i \in 1..Len(s) :
                          s[i] = sep /\ \A j \in 1..(i - 1) : s[j] # sep) - 1)
    ELSE s

S_Wsdl == <<"?", "wsdl">>
S_Asmx == <<".asmx">>
S_SherpaAsmx == <<"/Sherpa", ".asmx">>

\* variant: the suffix test looks for the whole endpoint name
TargetUrl_suffix(base) ==
    LET u == SplitFirst(Replace(base, S_Wsdl, 1), "?")
    IN  IF ~EndsWith(u, S_SherpaAsmx) THEN u \o S_SherpaAsmx ELSE u

TargetUrl(base) ==
    LET u == SplitFirst(Replace(base, S_Wsdl, 1), "?")
    IN  IF ~EndsWith(u, S_Asmx) THEN u \o S_SherpaAsmx ELSE u

UrlTokens == {"/", "?", "wsdl", "/Sherpa", "/Other", ".asmx", "&x=1"}

\* base URLs: a host followed by up to MaxUrlLen tokens of path and query
BaseUrls == {<<"http://host">> \o t : t \in SeqsUpTo(UrlTokens, MaxUrlLen) \cup {<<>>}}

NoUrl == [done |-> FALSE, value |-> <<>>]

BuildUrl ==
    /\ ~url.done
    /\ url' = [done |-> TRUE, value |-> TargetUrl(base_url)]
    /\ UNCHANGED <<base_url, parseVars, callVars>>

-----------------------------------------------------------------------------
(* call_soap_service under tenacity's retry *)

Callers == {"A", "B"}

Services == {<<"GetStatus">>, <<"GetStock">>}

MaxAttempts == 3

SOAPAction(service_name) ==
    <<"\"http://sherpa.sherpaan.nl/">> \o service_name \o <<"\"">>

NoExc == [type |-> "none", at |-> 0, status |-> 0, wraps |-> "none"]
ConnectionError(k) == [type |-> "ConnectionError", at |-> k, status |-> 0, wraps |-> "none"]
HTTPError(k, st) == [type |-> "HTTPError", at |-> k, status |-> st, wraps |-> "none"]
\* tenacity.RetryError(last_attempt)
RetryError(e) == [type |-> "RetryError", at |-> e.at, status |-> e.status, wraps |-> e.type]

\* the texts the transport answers with
GoodText == Serialize(Envelope(<<Elem(BodyKeys[1], <<>>, <<SimpleEntry>>)>>))
TruncatedText == SubSeq(GoodText, 1, Len(GoodText) - 1)
HtmlText == Serialize(Elem(<<"html">>, OK, <<>>))

CallTexts == {GoodText, TruncatedText, HtmlText}
Statuses == {200, 204, 304, 404}

NoResponse == [kind |-> "none", status |-> 0, text |-> <<>>]
TransportOutcomes ==
    {[kind |-> "exception", status |-> 0, text |-> <<>>]}
        \cup {[kind |-> "response", status |-> st, text |-> t] : st \in Statuses, t \in CallTexts}

Pending == [kind |-> "pending", value |-> NoneV, exc |-> NoExc]
Returned(v) == [kind |-> "returned", value |-> v, exc |-> NoExc]
Raised(e) == [kind |-> "raised", value |-> NoneV, exc |-> e]

NoHeader == [action |-> <<>>, by |-> "nobody"]

\* requests' Response.raise_for_status, line 93
RaisesForStatus(status) == 400 <= status /\ status < 600

\* variant: a parsing failure escapes the attempt
AttemptOutcome_parseRaises(out, k) ==
    IF out.kind = "exception" THEN Raised(ConnectionError(k))
    ELSE IF RaisesForStatus(out.status) THEN Raised(HTTPError(k, out.status))
    ELSE IF ParseTry(out.text).raised \/ HasKey(ParseTry(out.text).value, <<"raw_response">>)
    THEN Raised([type |-> "ParseError", at |-> k, status |-> out.status, wraps |-> "none"])
    ELSE Returned(_parse_soap_response(out.text).value)

\* lines 81-105: what one attempt makes of the transport's outcome
AttemptOutcome(out, k) ==
    IF out.kind = "exception" THEN Raised(ConnectionError(k))
    ELSE IF RaisesForStatus(out.status) THEN Raised(HTTPError(k, out.status))
    ELSE Returned(_parse_soap_response(out.text).value)

\* variant: the retry gives up one attempt early
ShouldStop_early(k) == k >= MaxAttempts - 1

\* stop_after_attempt(3), line 46
ShouldStop(k) == k >= MaxAttempts

\* lines 45-48: retry() is built without reraise=True, so on exhaustion
\* tenacity raises RetryError wrapping the last attempt
Exhausted(e) == Raised(RetryError(e))

\* variant: every request is prepared with a header map of its own
RequestAction_own(p) == SOAPAction(service[p])

\* the headers a request is prepared with: session.post reads the session's
\* headers, lines 81-85
RequestAction(p) == headers.action

\* call_soap_service is invoked; tenacity starts the first attempt
Call(p) ==
    /\ pc[p] = "idle"
    /\ pc' = [pc EXCEPT ![p] = "header"]
    /\ attempt' = [attempt EXCEPT ![p] = 1]
    /\ UNCHANGED <<headers, service, lastExc, response, outcome, sent,
                   base_url, parseVars, urlVars>>

\* lines 63-65
UpdateHeaders(p) ==
    /\ pc[p] = "header"
    /\ headers' = [action |-> SOAPAction(service[p]), by |-> p]
    /\ pc' = [pc EXCEPT ![p] = "post"]
    /\ UNCHANGED <<service, attempt, lastExc, response, outcome, sent,
                   base_url, parseVars, urlVars>>

\* lines 67-85: the request leaves with the URL and the session's headers
Post(p) ==
    /\ pc[p] = "post"
    /\ sent' = sent \cup {[by |-> p, attempt |-> attempt[p],
                           action |-> RequestAction(p), wrote |-> headers.by,
                           url |-> TargetUrl(base_url)]}
    /\ pc' = [pc EXCEPT ![p] = "wait"]
    /\ UNCHANGED <<headers, service, attempt, lastExc, response, outcome,
                   base_url, parseVars, urlVars>>

\* lines 87-105 and tenacity's decision after the attempt
HandleResponse(p, out) ==
    /\ pc[p] = "wait"
    /\ response' = [response EXCEPT ![p] = out]
    /\ LET a == AttemptOutcome(out, attempt[p])
       IN  IF a.kind = "returned"
           THEN /\ outcome' = [outcome EXCEPT ![p] = a]
                /\ pc' = [pc EXCEPT ![p] = "done"]
                /\ UNCHANGED <<attempt, lastExc>>
           ELSE /\ lastExc' = [lastExc EXCEPT ![p] = a.exc]
                /\ IF ShouldStop(attempt[p])
                   THEN /\ outcome' = [outcome EXCEPT ![p] = Exhausted(a.exc)]
                        /\ pc' = [pc EXCEPT ![p] = "done"]
                        /\ UNCHANGED attempt
                   ELSE /\ attempt' = [attempt EXCEPT ![p] = attempt[p] + 1]
                        /\ pc' = [pc EXCEPT ![p] = "header"]
                        /\ UNCHANGED outcome
    /\ UNCHANGED <<headers, service, sent, base_url, parseVars, urlVars>>

-----------------------------------------------------------------------------
(* Specifications *)

CallsIdle ==
    /\ headers = NoHeader
    /\ pc = [p \in Callers |-> "idle"]
    /\ attempt = [p \in Callers |-> 0]
    /\ lastExc = [p \in Callers |-> NoExc]
    /\ response = [p \in Callers |-> NoResponse]
    /\ outcome = [p \in Callers |-> Pending]
    /\ sent = {}

\* two callers share one client
Init ==
    /\ CallsIdle
    /\ service \in {f \in [Callers -> Services] : f["A"] # f["B"]}
    /\ base_url = <<"http://host", "/Sherpa", ".asmx", "?", "wsdl">>
    /\ url = NoUrl
    /\ xml_response = <<>>
    /\ parsed = NotParsed

Next ==
    \E p \in Callers :
        \/ Call(p)
        \/ UpdateHeaders(p)
        \/ Post(p)
        \/ \E out \in TransportOutcomes : HandleResponse(p, out)

Spec == Init /\ [][Next]_vars

\* one run of the unwrapper on a response text
InitParse ==
    /\ CallsIdle
    /\ service = [p \in Callers |-> <<"GetStatus">>]
    /\ base_url = <<"http://host">>
    /\ url = NoUrl
    /\ xml_response \in XmlTexts
    /\ parsed = NotParsed

NextParse == ParseResponse

SpecParse == InitParse /\ [][NextParse]_vars

\* one derivation of the target URL from a base URL
InitUrl ==
    /\ CallsIdle
    /\ service = [p \in Callers |-> <<"GetStatus">>]
    /\ base_url \in BaseUrls
    /\ url = NoUrl
    /\ xml_response = <<>>
    /\ parsed = NotParsed

NextUrl == BuildUrl

SpecUrl == InitUrl /\ [][NextUrl]_vars

-----------------------------------------------------------------------------
(* Properties *)

Requests(p) == {r \in sent : r.by = p}

IsSuccess(status) == 200 <= status /\ status <= 299

\* C1: when all attempts fail, the exception the caller gets is the
\* exception raised by the last attempt itself, not a wrapping one.
C1_LastExceptionPropagates ==
    \A p \in Callers :
        outcome[p].kind = "raised" => outcome[p].exc = lastExc[p]

\* C2: a response with a status outside 200-299 is never parsed and
\* returned, whatever its body.
C2_NonSuccessRaises ==
    \A p \in Callers :
        outcome[p].kind = "returned" => IsSuccess(response[p].status)

\* C3: attempts are made one after another until the first success or
\* until 3 have been made; a call whose k-th attempt is the first to succeed
\* has sent exactly k requests and returns the parsed k-th response.
C3_RetryUntilSuccess ==
    \A p \in Callers :
        /\ Cardinality(Requests(p)) <= 3
        /\ {r.attempt : r \in Requests(p)} = 1..Cardinality(Requests(p))
        /\ pc[p] \in {"header", "post"} => Cardinality(Requests(p)) = attempt[p] - 1
        /\ pc[p] \in {"header", "post"} /\ attempt[p] > 1 => lastExc[p].at = attempt[p] - 1
        /\ outcome[p].kind = "returned" =>
              /\ pc[p] = "done"
              /\ attempt[p] \in 1..3
              /\ Cardinality(Requests(p)) = attempt[p]
              /\ response[p].kind = "response"
              /\ outcome[p].value = _parse_soap_response(response[p].text).value
              /\ lastExc[p].at = attempt[p] - 1
        /\ outcome[p].kind = "raised" =>
              /\ pc[p] = "done"
              /\ Cardinality(Requests(p)) = 3
              /\ lastExc[p].at = 3

C3_Witness ==
    \E p \in Callers :
        /\ outcome[p].kind = "returned"
        /\ attempt[p] = 3
        /\ lastExc[p].at = 2
        /\ response[p].text = GoodText
        /\ outcome[p].value = StrV(OK)

\* C8: a request carries whatever SOAPAction the shared session holds when
\* it is sent, the header of the call that wrote last, so two overlapping
\* calls with different service names can send a request under the other
\* call's SOAPAction.
C8_RequestCarriesSessionHeader ==
    \A r \in sent :
        /\ r.wrote \in Callers
        /\ r.action = SOAPAction(service[r.wrote])

C8_Witness ==
    \E r \in sent :
        /\ service[r.by] # service[r.wrote]
        /\ r.action = SOAPAction(service[r.wrote])
        /\ r.action # SOAPAction(service[r.by])

Unrecognized == {TruncatedText, HtmlText}

\* C9: a parsing failure never causes a retry: an attempt that receives a
\* successful status with a malformed or unrecognizable body ends the call
\* with the raw_response fallback, and when it is the first attempt exactly
\* one request has been sent.
C9_ParseFailureNotRetried ==
    \A p \in Callers :
        (/\ pc[p] # "wait"
         /\ response[p].kind = "response"
         /\ IsSuccess(response[p].status)
         /\ response[p].text \in Unrecognized)
        => /\ pc[p] = "done"
           /\ outcome[p] = Returned(RawResponse(response[p].text))
           /\ Cardinality(Requests(p)) = attempt[p]
           /\ lastExc[p].at = attempt[p] - 1

C9_Witness ==
    \E p \in Callers :
        /\ pc[p] = "done"
        /\ attempt[p] = 1
        /\ response[p].status = 200
        /\ response[p].text = TruncatedText
        /\ Cardinality(Requests(p)) = 1
        /\ outcome[p] = Returned(RawResponse(TruncatedText))

\* the soap:Body mapping of a text, when the text has one
HasBodyMapping(text) ==
    LET x == xmltodict_parse(text)
    IN  /\ ~x.raised
        /\ HasKey(x.value, EnvelopeKeys[1])
        /\ Get(x.value, EnvelopeKeys[1]).type = "dict"
        /\ HasKey(Get(x.value, EnvelopeKeys[1]), BodyKeys[1])
        /\ Get(Get(x.value, EnvelopeKeys[1]), BodyKeys[1]).type = "dict"

BodyMapping(text) == Get(Get(xmltodict_parse(text).value, EnvelopeKeys[1]), BodyKeys[1])

\* C4: when the body has an entry <X>Response that is a mapping with a key
\* Result, the value under Result is returned, whatever it is.
C4_ResultReturned ==
    (parsed.done /\ HasBodyMapping(xml_response)) =>
        LET body == BodyMapping(xml_response)
            hits == {i \in 1..Len(body.items) :
                        /\ EndsWith(body.items[i].k, S_Response)
                        /\ body.items[i].v.type = "dict"
                        /\ HasKey(body.items[i].v, S_Result)}
        IN  hits # {} =>
                \E i \in hits : parsed.value = Get(body.items[i].v, S_Result)

\* texts whose envelope or body is not a mapping
NonMappingTexts ==
    {Serialize(Elem(EnvelopeKeys[1], d, <<>>)) : d \in {<<>>, OK, BodyKeys[1], BodyKeys[3]}}
        \cup {Serialize(Envelope(<<Elem(BodyKeys[1], OK, <<>>)>>)),
              Serialize(Envelope(<<Elem(BodyKeys[1], <<>>, <<SimpleEntry>>),
                                   Elem(BodyKeys[1], <<>>, <<SimpleEntry>>)>>))}

\* C5: _parse_soap_response never raises; whenever XML parsing or a later
\* step raises, the result is {"raw_response": <the original text>}.
C5_NeverRaises ==
    parsed.done =>
        /\ ~parsed.raised
        /\ xml_response \in MalformedTexts \cup NonMappingTexts
              => parsed.value = RawResponse(xml_response)
        /\ ParseTry(xml_response).raised => parsed.value = RawResponse(xml_response)

C5_Witness ==
    /\ parsed.done
    /\ ~xmltodict_parse(xml_response).raised
    /\ ParseTry(xml_response).raised
    /\ xml_response \in NonMappingTexts
    /\ parsed.value = RawResponse(xml_response)

\* C6: every value _parse_soap_response returns is a non-empty mapping.
C6_ReturnsMapping ==
    parsed.done => parsed.value.type = "dict" /\ Truthy(parsed.value)

\* the three tests made on a mapping-valued entry
Matches(entry) ==
    /\ entry.v.type = "dict"
    /\ \/ HasKey(entry.v, S_Result)
       \/ HasKey(entry.v, S_ResponseValue)
       \/ Contains(entry.k, S_Response)

Payload(entry) ==
    IF HasKey(entry.v, S_Result) THEN Get(entry.v, S_Result)
    ELSE IF HasKey(entry.v, S_ResponseValue) THEN Get(entry.v, S_ResponseValue)
    ELSE entry.v

Mappings(body) == {i \in 1..Len(body.items) : body.items[i].v.type = "dict"}

Least(S) == CHOOSE i \in S : \A j \in S : i <= j

\* C10 as stated: only the first mapping-valued entry is examined; when it
\* yields no match the body itself is returned.
C10_OnlyFirstMapping ==
    (parsed.done /\ HasBodyMapping(xml_response)) =>
        LET body == BodyMapping(xml_response)
        IN  (Mappings(body) # {} /\ ~Matches(body.items[Least(Mappings(body))]))
                => parsed.value = body

\* C10 amended: the entries are examined in order, and the search stops at
\* the first mapping-valued entry that has a key Result, else a key
\* ResponseValue, else a key of its own containing Response; mapping-valued
\* entries without a match are passed over.  The payload of that entry is
\* returned unless it is empty; the body itself is returned when no entry
\* matches or the payload is empty.
C10_FirstMatchingMapping ==
    (parsed.done /\ HasBodyMapping(xml_response)) =>
        LET body == BodyMapping(xml_response)
            hits == {i \in 1..Len(body.items) : Matches(body.items[i])}
        IN  IF hits = {}
            THEN parsed.value = body /\ parsed.stop = 0
            ELSE /\ parsed.stop = Least(hits)
                 /\ parsed.value = IF Truthy(Payload(body.items[Least(hits)]))
                                   THEN Payload(body.items[Least(hits)])
                                   ELSE body

C10_Witness ==
    /\ parsed.done
    /\ HasBodyMapping(xml_response)
    /\ Mappings(BodyMapping(xml_response)) # {}
    /\ ~Matches(BodyMapping(xml_response).items[Least(Mappings(BodyMapping(xml_response)))])
    /\ parsed.stop > Least(Mappings(BodyMapping(xml_response)))
    /\ parsed.value # BodyMapping(xml_response)

\* the base URL up to its first "?"
WithoutQuery(base) ==
    IF \E i \in 1..Len(base) : base[i] = "?"
    THEN SubSeq(base, 1, Least({i \in 1..Len(base) : base[i] = "?"}) - 1)
    ELSE base

WsdlStarts(base) ==
    {i \in 1..(Len(base) - 1) : base[i] = "?" /\ base[i + 1] = "wsdl"}

Kept(base) ==
    {i \in 1..Len(base) : i \notin WsdlStarts(base) /\ (i - 1) \notin WsdlStarts(base)}

WithoutWsdl(base) ==
    [n \in 1..Cardinality(Kept(base)) |->
        base[CHOOSE i \in Kept(base) : Cardinality({j \in Kept(base) : j <= i}) = n]]

====
